---- MODULE Spec2Model ----
(***************************************************************************)
(* A model of the Glassdoor job scraper: the paginated GraphQL harvester   *)
(* (glassdoor_scraper_api.py), the table assembly that follows it, and the *)
(* Flask front end (app.py) that runs one harvest in a background thread   *)
(* and reports it through the process-wide record scraping_progress.       *)
(***************************************************************************)
EXTENDS Integers, Sequences, FiniteSets, Bags, TLC

VARIABLES
    scraping_progress,  \* app.py: the module-global status record
    handlers,           \* app.py: the start_scraping calls in flight (a bag of their locals)
    reply,              \* app.py: the JSON reply start_scraping returned last
    thr,                \* app.py: the scrape_jobs_thread threads, with their locals
    scraper             \* glassdoor_scraper_api.py: the GlassdoorAPIScraper of a direct call

vars == <<scraping_progress, handlers, reply, thr, scraper>>

(***************************************************************************)
(* Bounds of the model.                                                    *)
(***************************************************************************)
MaxId == 2          \* the upstream's listing identifiers are 1..MaxId
MaxListings == 2    \* raw listings the upstream serves to one harvest (small pages)
MaxCap == 3         \* a direct caller's max_results ranges over 0..MaxCap (and 30, 50)
MaxStarts == 2      \* start requests accepted in one run of the process
Today == 10         \* the day number datetime.now() falls on

(***************************************************************************)
(* Program constants.                                                      *)
(***************************************************************************)
MaxPagesCap == 30       \* min(30, ...) in max_pages
JobsPerPage == 30       \* max_results // 30, and numJobsToShow
PagesPerJobs == 30      \* app.py: max_results = num_pages * 30
MaxNumPages == 10       \* app.py: num_pages is capped at 10
DefaultLocationId == 11047
MinSheetIdLen == 20     \* app.py: a sheet id shorter than 20 is rejected

Min(a, b) == IF a < b THEN a ELSE b
Max(a, b) == IF a > b THEN a ELSE b

\* Python's None and an optional value, as sequences of length 0 and 1.
None == <<>>
Some(x) == <<x>>

\* The value of a local cursor variable that holds None (line 234, line 298).
NoCursor == "<None>"

Threads == 1..MaxStarts

(***************************************************************************)
(* The upstream's data.                                                    *)
(***************************************************************************)
\* ageInDays of a listing header: absent (None) or a day count.
Ages == {None, Some(0), Some(1)}

\* A raw listing of the search API, as process_job reads it.  listingId 0
\* stands for an absent, null or empty identifier; a title of "<absent>"
\* for a key that is missing from its block.
RawListing(id, age, jobTitle, headerTitle, hasJobview, hasHeader, hasJob) ==
    [listingId |-> id, ageInDays |-> age, jobTitleText |-> jobTitle,
     headerTitleText |-> headerTitle, has_jobview |-> hasJobview,
     has_header |-> hasHeader, has_job |-> hasJob]

GoodListing(id, age) == RawListing(id, age, "T", "H", TRUE, TRUE, TRUE)

\* The listings the harvest specifications draw pages from: every
\* identifier with every age, and one listing that has no identifier.
HarvestListings ==
    {GoodListing(id, age) : id \in 1..MaxId, age \in Ages}
        \cup {GoodListing(0, None)}

\* Listings process_job gives up on: no jobview, no header, no job block,
\* no listing identifier, and a job block without the jobTitleText key.
BadListings ==
    {RawListing(1, Some(0), "T", "H", FALSE, TRUE, TRUE),
     RawListing(1, Some(0), "T", "H", TRUE, FALSE, TRUE),
     RawListing(1, Some(0), "T", "H", TRUE, TRUE, FALSE),
     GoodListing(0, Some(0)),
     RawListing(1, Some(0), "<absent>", "H", TRUE, TRUE, TRUE)}

\* The listings of an upstream that mixes such listings with sound ones,
\* whose job blocks have an empty title.
FaultyListings ==
    BadListings \cup {RawListing(id, Some(0), "", "H", TRUE, TRUE, TRUE) : id \in 1..MaxId}

(***************************************************************************)
(* process_job: the record normalizer.                                     *)
(***************************************************************************)
\* job_url = f"{base_url}/job-listing/j?jl={job_id}"
JobUrl(job_id) == <<"https://www.glassdoor.com/job-listing/j?jl=", job_id>>

\* (datetime.now() - timedelta(days=age_in_days)).strftime("%Y-%m-%d"): the
\* date as a day number; the zero-padded text orders as the day numbers do.
DatePosted(age_in_days) ==
    IF age_in_days = None THEN None ELSE Some(Today - age_in_days[1])

\* title = job_info["jobTitleText"] or header.get("jobTitleText", "")
Title(raw) ==
    IF raw.jobTitleText # "" THEN raw.jobTitleText
    ELSE IF raw.headerTitleText = "<absent>" THEN "" ELSE raw.headerTitleText

\* A faulty normalizer: a listing without identifier yields a record with
\* the fields that could be read.
process_job_unidentified(raw) ==
    IF ~raw.has_jobview THEN None
    ELSE IF ~raw.has_header \/ ~raw.has_job THEN None
    ELSE IF raw.jobTitleText = "<absent>" THEN None
    ELSE Some([job_url |-> JobUrl(raw.listingId),
               title |-> Title(raw),
               date_posted |-> DatePosted(raw.ageInDays),
               age_days |-> raw.ageInDays])

\* None when the listing is skipped, Some(record) otherwise.
process_job(raw) ==
    IF ~raw.has_jobview THEN None
    ELSE IF ~raw.has_header \/ ~raw.has_job THEN None
    ELSE IF raw.listingId = 0 THEN None
    ELSE IF raw.jobTitleText = "<absent>" THEN None   \* KeyError, caught at line 403
    ELSE Some([job_url |-> JobUrl(raw.listingId),
               title |-> Title(raw),
               date_posted |-> DatePosted(raw.ageInDays),
               age_days |-> raw.ageInDays])

\* A faulty page loop: the first listing that fails ends the page.
ProcessPageAborting(jobs_data) ==
    LET failed == {i \in 1..Len(jobs_data) : process_job(jobs_data[i]) = None}
        n == IF failed = {} THEN Len(jobs_data)
             ELSE (CHOOSE i \in failed : \A j \in failed : i <= j) - 1
    IN  [i \in 1..n |-> process_job(jobs_data[i])[1]]

\* The loop of lines 282-291: the records of the listings that normalize,
\* in page order.
ProcessPage(jobs_data) ==
    LET processed == SelectSeq(jobs_data, LAMBDA raw : process_job(raw) # None)
    IN  [i \in 1..Len(processed) |-> process_job(processed[i])[1]]

(***************************************************************************)
(* The upstream's answers.                                                 *)
(***************************************************************************)
\* What the bootstrap page fetch of initialize_session does.
BootstrapOutcomes == {"token_found", "no_match", "raises"}

\* The locationId of a suggestion as the upstream's JSON carries it: the
\* key absent, null, a text that is no number, an integer, or the digits of
\* one.
LocationId(form, value) == [form |-> form, value |-> value]
NoLocationId == LocationId("absent", 0)
LocationIds ==
    {NoLocationId, LocationId("null", 0), LocationId("text", 0)}
        \cup {LocationId(form, n) : form \in {"int", "digits"}, n \in 0..MaxId}

\* The locationType of a suggestion: a letter, null, or the key absent.
LocationTypes == {"C", "S", "N", "X", "<None>", "<absent>"}

\* What the location lookup of get_location_id meets: an empty location
\* string, a non-200 answer, an empty suggestion list, an exception
\* (transport error, a body that is not JSON), or a first suggestion with
\* its locationId and locationType.
LocationLookup(kind, id, letter) == [kind |-> kind, locationId |-> id, locationType |-> letter]

NoSuggestionLookups ==
    {LocationLookup(kind, NoLocationId, "<absent>") :
        kind \in {"empty_input", "http_error", "no_suggestions", "exception"}}

HarvestLookups ==
    {LocationLookup("empty_input", NoLocationId, "<absent>"),
     LocationLookup("http_error", NoLocationId, "<absent>"),
     LocationLookup("found", LocationId("int", 0), "C")}

\* Every outcome of the lookup a direct call of get_location_id may meet.
ResolverLookups ==
    NoSuggestionLookups
        \cup {LocationLookup("found", id, letter) : id \in LocationIds, letter \in LocationTypes}

\* One answer of the search endpoint to a page request.  kind is "ok" for a
\* 200 answer carrying data, "http_error" for another status, "no_data" for
\* an empty or data-less payload, "exception" for a transport error or a
\* payload without the jobListings block.  cursors_raise marks a cursor
\* list the scan of lines 297-302 raises on.
Response(kind, listings, cursors, raises) ==
    [kind |-> kind, jobListings |-> listings, paginationCursors |-> cursors,
     cursors_raise |-> raises]

FailureResponses ==
    {Response(k, <<>>, <<>>, FALSE) : k \in {"http_error", "no_data", "exception"}}

CursorEntry(n, c) == [pageNumber |-> n, cursor |-> c]

\* The cursor lists an answer to the request for `page` may carry.
CursorLists(page) ==
    { <<>>,
      <<CursorEntry(page + 1, "a")>>,
      <<CursorEntry(page + 1, "")>>,
      <<CursorEntry(page + 2, "b")>>,
      <<CursorEntry(page, "a"), CursorEntry(page + 1, "b")>> }

PageSeqs(n) == UNION {[1..k -> HarvestListings] : k \in 0..n}
FaultyPageSeqs(n) == UNION {[1..k -> FaultyListings] : k \in 0..n}

\* Small pages: at most `left` listings, any cursor list.
SmallResponses(page, left) ==
    FailureResponses
        \cup {Response("ok", l, c, FALSE) : l \in PageSeqs(left), c \in CursorLists(page)}
        \cup {Response("ok", l, <<>>, TRUE) : l \in PageSeqs(left) \ {<<>>}}

\* Pages with listings that fail to normalize: at most `left` listings,
\* with or without a cursor for the following page.
FaultyResponses(page, left) ==
    {Response("ok", l, c, FALSE) :
        l \in FaultyPageSeqs(left), c \in {<<>>, <<CursorEntry(page + 1, "a")>>}}

\* Full pages: JobsPerPage listings with fresh identifiers, all of one age,
\* and a cursor for the following page.
FullPage(page, age) ==
    [i \in 1..JobsPerPage |-> GoodListing(1000 + (page - 1) * JobsPerPage + i, age)]

FullResponses(page) ==
    {Response("ok", FullPage(page, age), <<CursorEntry(page + 1, "a")>>, FALSE) : age \in Ages}

\* Pages of three listings in which identifiers repeat, with or without a
\* cursor for the following page.
RepeatingPages ==
    {<<GoodListing(a, Some(1)), GoodListing(b, Some(0)), GoodListing(c, None)>> :
        a, b, c \in 1..MaxId}

RepeatingResponses(page) ==
    {Response("ok", l, c, FALSE) :
        l \in RepeatingPages, c \in {<<>>, <<CursorEntry(page + 1, "a")>>}}

\* The pages the web application's harvests meet.
AppResponses(page) ==
    { Response("http_error", <<>>, <<>>, FALSE),
      Response("ok", <<>>, <<>>, FALSE),
      Response("ok", <<GoodListing(1, Some(1))>>, <<CursorEntry(page + 1, "a")>>, FALSE),
      Response("ok", <<GoodListing(1, Some(1)), GoodListing(0, None)>>, <<>>, FALSE) }

(***************************************************************************)
(* GlassdoorAPIScraper.                                                    *)
(***************************************************************************)
FallbackToken == "fallback_token"

\* A scraper that no call has created yet.
IdleScraper ==
    [pc |-> "idle", upstream |-> "none", max_results |-> 0,
     bootstrap |-> None, csrf_token |-> None, csrf_header |-> None,
     location_id |-> 0, location_type |-> "-",
     all_jobs |-> <<>>, page |-> 0, cursor |-> NoCursor, max_pages |-> 0,
     served |-> 0, requests |-> <<>>, responses |-> <<>>,
     jobs |-> <<>>, df |-> <<>>, lookup |-> None]

\* scrape_glassdoor_api(search_term, location, max_results) has just built
\* its GlassdoorAPIScraper and calls search_jobs.
NewScraper(upstream, max_results) ==
    [IdleScraper EXCEPT !.pc = "initialize_session", !.upstream = upstream,
                        !.max_results = max_results]

\* A faulty bootstrap: no fallback, csrf_token stays None without a match.
CsrfTokenNoFallback(outcome) ==
    IF outcome = "token_found" THEN Some("page_token") ELSE None

\* initialize_session: the token found in the bootstrap page, or the
\* fallback when the pattern is missing or the fetch raises.
CsrfToken(outcome) ==
    IF outcome = "token_found" THEN Some("page_token") ELSE Some(FallbackToken)

\* get_location_id: (location_id, location_type).
LocationTypeName(letter) ==
    CASE letter = "C" -> "CITY"
      [] letter = "S" -> "STATE"
      [] letter = "N" -> "COUNTRY"
      [] OTHER -> letter

\* Lines 176-214.  int(location_data["locationId"]) raises on a missing
\* key, on null and on a text that is no number, location_data["locationType"]
\* on a missing key; the except clause of line 212 answers with the default.
\* A type that is none of C, S, N is passed on as it is.
get_location_id(lookup) ==
    IF lookup.kind # "found" THEN <<DefaultLocationId, "STATE">>
    ELSE IF lookup.locationId.form \notin {"int", "digits"} THEN <<DefaultLocationId, "STATE">>
    ELSE IF lookup.locationType = "<absent>" THEN <<DefaultLocationId, "STATE">>
    ELSE <<lookup.locationId.value, LocationTypeName(lookup.locationType)>>

\* max_pages = min(30, (max_results // 30) + 2)
MaxPages(max_results) == Min(MaxPagesCap, (max_results \div JobsPerPage) + 2)

\* A faulty loop condition: the test of the page cap is left out.
LoopCondResultsOnly(s) == Len(s.all_jobs) < s.max_results

\* A faulty loop condition: the test of the result cap is left out.
LoopCondPagesOnly(s) == s.page <= s.max_pages

\* while page <= max_pages and len(all_jobs) < max_results
LoopCond(s) == s.page <= s.max_pages /\ Len(s.all_jobs) < s.max_results

\* A faulty scan: the first entry's cursor is taken whatever its page number.
NextCursorAnyPage(pagination_cursors, page) ==
    IF pagination_cursors = <<>> THEN NoCursor ELSE Head(pagination_cursors).cursor

\* Lines 298-302: the cursor of the first entry for page + 1, else None.
RECURSIVE NextCursor(_, _)
NextCursor(pagination_cursors, page) ==
    IF pagination_cursors = <<>> THEN NoCursor
    ELSE IF Head(pagination_cursors).pageNumber = page + 1
         THEN Head(pagination_cursors).cursor
         ELSE NextCursor(Tail(pagination_cursors), page)

\* Python's truth value of the cursor: None and "" are false.
Truthy(cursor) == cursor # NoCursor /\ cursor # ""

\* Faulty returns: the accumulator as it is, and a slice one record too long.
TruncateNone(all_jobs, max_results) == all_jobs
TruncateOffByOne(all_jobs, max_results) ==
    SubSeq(all_jobs, 1, Min(max_results + 1, Len(all_jobs)))

\* A faulty return: the accumulator is deduplicated by job_url before it is
\* cut to max_results.
TruncateDeduplicated(all_jobs, max_results) ==
    LET unique == SelectSeq([i \in 1..Len(all_jobs) |-> <<i, all_jobs[i]>>],
                            LAMBDA p : \A j \in 1..(p[1] - 1) :
                                           all_jobs[j].job_url # p[2].job_url)
    IN  [i \in 1..Min(max_results, Len(unique)) |-> unique[i][2]]

\* all_jobs[:max_results], Python's slice (a negative bound counts from the end).
Truncate(all_jobs, max_results) ==
    IF max_results >= 0
    THEN SubSeq(all_jobs, 1, Min(max_results, Len(all_jobs)))
    ELSE SubSeq(all_jobs, 1, Max(0, Len(all_jobs) + max_results))

\* A faulty failure branch: the harvest starts over from page 1.
PageFailedRestart(s) ==
    [s EXCEPT !.pc = "loop", !.page = 1, !.cursor = NoCursor, !.all_jobs = <<>>,
              !.requests = <<>>, !.responses = <<>>, !.served = 0]

\* A faulty failure branch: the loop goes on and asks for the page again.
PageFailedRetry(s) == [s EXCEPT !.pc = "loop"]

\* A faulty failure branch: the records of the earlier pages are dropped.
PageFailedDiscard(s) == [s EXCEPT !.pc = "break", !.all_jobs = <<>>]

\* Lines 266-273 and 311-313: a request that failed leaves the loop; the
\* accumulator is left as it is.
PageFailed(s) == [s EXCEPT !.pc = "break"]

\* A faulty loop body: the test for an empty page (lines 277-279) is left
\* out, so an empty page goes on to the cursor scan like any other.
LoopBodyNoEmptyBreak(s, resp) ==
    LET sent == [s EXCEPT !.requests = Append(@, [pageNumber |-> s.page,
                                                   pageCursor |-> s.cursor,
                                                   csrf |-> s.csrf_header]),
                          !.responses = Append(@, resp),
                          !.served = @ + Len(resp.jobListings)]
    IN  IF resp.kind # "ok" THEN PageFailed(sent)
        ELSE LET got == [sent EXCEPT !.all_jobs = @ \o ProcessPage(resp.jobListings)]
                 next == NextCursor(resp.paginationCursors, s.page)
             IN  IF resp.cursors_raise THEN [got EXCEPT !.pc = "break", !.cursor = NoCursor]
                 ELSE IF ~Truthy(next) THEN [got EXCEPT !.pc = "break", !.cursor = next]
                 ELSE [got EXCEPT !.cursor = next, !.page = @ + 1]

\* One pass of the loop body (lines 238-313) on the answer `resp`: the
\* scraper's locals afterwards; pc "loop" when the loop goes on and
\* "break" when it was left.
LoopBody(s, resp) ==
    LET sent == [s EXCEPT !.requests = Append(@, [pageNumber |-> s.page,
                                                   pageCursor |-> s.cursor,
                                                   csrf |-> s.csrf_header]),
                          !.responses = Append(@, resp),
                          !.served = @ + Len(resp.jobListings)]
    IN  IF resp.kind # "ok" THEN PageFailed(sent)
        ELSE IF resp.jobListings = <<>> THEN [sent EXCEPT !.pc = "break"]
        ELSE LET got == [sent EXCEPT !.all_jobs = @ \o ProcessPage(resp.jobListings)]
                 next == NextCursor(resp.paginationCursors, s.page)
             IN  IF resp.cursors_raise THEN [got EXCEPT !.pc = "break", !.cursor = NoCursor]
                 ELSE IF ~Truthy(next) THEN [got EXCEPT !.pc = "break", !.cursor = next]
                 ELSE [got EXCEPT !.cursor = next, !.page = @ + 1]

\* The answers the upstream may give to the scraper's next page request.
UpstreamResponses(s) ==
    CASE s.upstream = "small" -> SmallResponses(s.page, MaxListings - s.served)
      [] s.upstream = "full" -> FullResponses(s.page)
      [] s.upstream = "faulty" -> FaultyResponses(s.page, MaxListings - s.served)
      [] s.upstream = "repeating" -> RepeatingResponses(s.page)
      [] OTHER -> AppResponses(s.page)

(***************************************************************************)
(* scrape_glassdoor_api: the table assembly.                               *)
(***************************************************************************)
\* A faulty deduplication: drop_duplicates without subset=, which drops
\* only the rows that are equal in every column.
DropDuplicateRows(jobs) ==
    LET indexed == [i \in 1..Len(jobs) |-> <<i, jobs[i]>>]
        first == SelectSeq(indexed,
                           LAMBDA p : \A j \in 1..(p[1] - 1) : jobs[j] # p[2])
    IN  [i \in 1..Len(first) |-> first[i][2]]

\* A faulty deduplication: keep='last', which keeps the last row of each
\* job_url.
DropDuplicatesKeepLast(jobs) ==
    LET indexed == [i \in 1..Len(jobs) |-> <<i, jobs[i]>>]
        last == SelectSeq(indexed,
                          LAMBDA p : \A j \in (p[1] + 1)..Len(jobs) :
                                         jobs[j].job_url # p[2].job_url)
    IN  [i \in 1..Len(last) |-> last[i][2]]

\* df.drop_duplicates(subset=['job_url'], keep='first')
\* A row stays when no row before it has its job_url.
DropDuplicates(jobs) ==
    LET indexed == [i \in 1..Len(jobs) |-> <<i, jobs[i]>>]
        first == SelectSeq(indexed,
                           LAMBDA p : \A j \in 1..(p[1] - 1) :
                                          jobs[j].job_url # p[2].job_url)
    IN  [i \in 1..Len(first) |-> first[i][2]]

\* The order of sort_values('date_posted', ascending=False): a row goes
\* strictly before another when its date is later, and a dated row before
\* an undated one (na_position='last').
Before(a, b) ==
    /\ a.date_posted # None
    /\ (b.date_posted = None \/ a.date_posted[1] > b.date_posted[1])

\* A faulty assembly: the rows are left in fetch order.
SortValuesOmitted(df, ties) == df

\* sort_values uses quicksort, which is not stable: rows with equal keys
\* may come out in either order.  ties = "kept" leaves them in their order,
\* ties = "swapped" reverses them.  A row's place is the number of rows
\* that go before it.
SortValues(df, ties) ==
    LET n == Len(df)
        Precedes(i, j) ==
            \/ Before(df[i], df[j])
            \/ /\ ~Before(df[j], df[i])
               /\ IF ties = "kept" THEN i < j ELSE i > j
        Place(i) == 1 + Cardinality({j \in 1..n : Precedes(j, i)})
    IN  [k \in 1..n |-> df[CHOOSE i \in 1..n : Place(i) = k]]

TieOrders == {"kept", "swapped"}

\* Lines 416-430: the table of the jobs search_jobs returned.
AssembleTable(jobs, ties) ==
    IF jobs = <<>> THEN <<>>
    ELSE SortValues(DropDuplicates(jobs), ties)

(***************************************************************************)
(* The steps of one scrape_glassdoor_api call, as the sets of states a      *)
(* scraper may be in after each.                                           *)
(***************************************************************************)
\* The bootstrap outcomes a harvest over the upstream may meet.  The page
\* loop never reads the token, so the many pages of the small upstream are
\* explored under the page's token alone, and the failing bootstraps with
\* every other upstream.
UpstreamBootstraps(s) ==
    IF s.upstream = "small" THEN {"token_found"} ELSE BootstrapOutcomes

\* initialize_session (lines 150-172), called from search_jobs line 224.
AfterInitializeSession(s) ==
    {[s EXCEPT !.bootstrap = Some(outcome),
               !.csrf_token = CsrfToken(outcome),
               !.csrf_header = CsrfToken(outcome),
               !.pc = "get_location_id"] : outcome \in UpstreamBootstraps(s)}

\* Lines 226-235: the location is resolved; a false location_id returns []
\* at once, otherwise the loop's locals are set.
AfterResolveLocation(s) ==
    {LET loc == get_location_id(lookup)
         r == [s EXCEPT !.location_id = loc[1], !.location_type = loc[2]]
     IN  IF loc[1] = 0
         THEN [r EXCEPT !.pc = "assemble", !.jobs = <<>>]
         ELSE [r EXCEPT !.pc = "loop", !.page = 1, !.cursor = NoCursor,
                        !.max_pages = MaxPages(s.max_results)]
     : lookup \in HarvestLookups}

\* One iteration of the while loop: the page request and what follows it.
AfterFetchPage(s) == {LoopBody(s, resp) : resp \in UpstreamResponses(s)}

\* Lines 315-316: the loop has ended; search_jobs returns all_jobs[:max_results].
AfterSearchJobsReturn(s) ==
    {[s EXCEPT !.jobs = Truncate(s.all_jobs, s.max_results), !.pc = "assemble"]}

\* Lines 416-430: scrape_glassdoor_api builds and returns the table.
AfterAssemble(s) ==
    {[s EXCEPT !.df = AssembleTable(s.jobs, ties), !.pc = "returned"] : ties \in TieOrders}

CanFetch(s) == s.pc = "loop" /\ LoopCond(s)
LoopEnded(s) == s.pc = "break" \/ (s.pc = "loop" /\ ~LoopCond(s))

\* Every state the call may be in when it returns, from the state s.
RECURSIVE RunScraper(_)
RunScraper(s) ==
    CASE s.pc = "initialize_session" -> UNION {RunScraper(n) : n \in AfterInitializeSession(s)}
      [] s.pc = "get_location_id" -> UNION {RunScraper(n) : n \in AfterResolveLocation(s)}
      [] CanFetch(s) -> UNION {RunScraper(n) : n \in AfterFetchPage(s)}
      [] LoopEnded(s) -> UNION {RunScraper(n) : n \in AfterSearchJobsReturn(s)}
      [] s.pc = "assemble" -> UNION {RunScraper(n) : n \in AfterAssemble(s)}
      [] OTHER -> {s}

\* The tables scrape_glassdoor_api(keyword, location, max_results) may return.
scrape_glassdoor_api(upstream, max_results) ==
    {s.df : s \in RunScraper(NewScraper(upstream, max_results))}

(***************************************************************************)
(* app.py: the status record and the start_scraping handler.               *)
(***************************************************************************)
\* scraping_progress as the module defines it (lines 83-90).  The keys a
\* later write adds are None while absent.
IdleProgress ==
    [status |-> "idle", current_page |-> 0, total_pages |-> 0,
     message |-> <<"Ready to start scraping">>, filename |-> "", job_count |-> 0,
     start_time |-> None, sheet_id |-> None, use_google_sheets |-> None,
     sheets_url |-> None, worksheet_name |-> None, end_time |-> None]

\* The form values a start request may carry: num_pages, and the sheet id
\* with its length ("" asks for the CSV file).
FormPages == {0, 1}
SheetIds == {"", "short-id", "1iibXYJ5ZSFZzFIKUyM8d4u3x87FOereMESBfuFW7ZYI"}
SheetIdLen(sheet_id) ==
    CASE sheet_id = "" -> 0
      [] sheet_id = "short-id" -> 8
      [] OTHER -> 44

\* if not sheet_id or len(sheet_id) < 20, under use_google_sheets and sheet_id
InvalidSheetId(sheet_id) == sheet_id # "" /\ SheetIdLen(sheet_id) < MinSheetIdLen

\* The locals of a start_scraping call that is past line 116.
Handler(pc, num_pages, sheet_id) == [pc |-> pc, num_pages |-> num_pages, sheet_id |-> sheet_id]

IdleThread ==
    [pc |-> "unstarted", num_pages |-> 0, sheet_id |-> "", use_google_sheets |-> FALSE,
     df |-> <<>>, error |-> <<>>, sinks |-> <<>>, wrote |-> <<>>]

\* A thread between threading.Thread.start() and the return of its target.
Active(t) == thr[t].pc \notin {"unstarted", "done"}

\* Threads started so far; the next thread takes the following slot.
Started == {t \in Threads : thr[t].pc # "unstarted"}

\* The start_scraping calls in flight, with their number.
InFlight == BagToSet(handlers)
Without(h) == handlers (-) SetToBag({h})
With(h) == handlers (+) SetToBag({h})

\* Line 102: if scraping_progress['status'] == 'running'
AlreadyRunning == scraping_progress.status = "running"

\* Lines 102-116: a request arrives; the handler reads the status, then the
\* form.  A request that passes goes on to the sheet validation, or
\* straight to the reset when no sheet id was given.
StartRequest ==
    /\ \/ /\ AlreadyRunning
          /\ reply' = "error: Scraping is already in progress"
          /\ UNCHANGED handlers
       \/ /\ ~AlreadyRunning
          /\ Cardinality(Started) + BagCardinality(handlers) < MaxStarts
          /\ \E num_pages \in FormPages, sheet_id \in SheetIds :
                IF InvalidSheetId(sheet_id)
                THEN /\ reply' = "error: Invalid Google Sheet ID"
                     /\ UNCHANGED handlers
                ELSE /\ handlers' = With(Handler(IF sheet_id # "" THEN "validate" ELSE "reset",
                                                 num_pages, sheet_id))
                     /\ UNCHANGED reply
    /\ UNCHANGED <<scraping_progress, thr, scraper>>

\* A faulty validation: a sheet that cannot be accessed is reported in the
\* status record as well as in the reply.
ValidateSheetReported ==
    /\ \E h \in InFlight, outcome \in {"valid", "invalid", "raises"} :
          /\ h.pc = "validate"
          /\ CASE outcome = "valid" ->
                    /\ handlers' = Without(h) (+) SetToBag({[h EXCEPT !.pc = "reset"]})
                    /\ UNCHANGED <<reply, scraping_progress>>
               [] outcome = "invalid" ->
                    /\ handlers' = Without(h)
                    /\ reply' = "error: Cannot access Google Sheet"
                    /\ scraping_progress' =
                          [scraping_progress EXCEPT !.status = "error",
                                                    !.message = <<"Cannot access Google Sheet">>]
               [] OTHER ->
                    /\ handlers' = Without(h)
                    /\ reply' = "error: Google Sheets validation failed"
                    /\ UNCHANGED scraping_progress
    /\ UNCHANGED <<thr, scraper>>

\* Lines 118-126: validate_sheet_access answers, or raises.
ValidateSheet ==
    /\ \E h \in InFlight, outcome \in {"valid", "invalid", "raises"} :
          /\ h.pc = "validate"
          /\ CASE outcome = "valid" ->
                    /\ handlers' = Without(h) (+) SetToBag({[h EXCEPT !.pc = "reset"]})
                    /\ UNCHANGED reply
               [] outcome = "invalid" ->
                    /\ handlers' = Without(h)
                    /\ reply' = "error: Cannot access Google Sheet"
               [] OTHER ->
                    /\ handlers' = Without(h)
                    /\ reply' = "error: Google Sheets validation failed"
    /\ UNCHANGED <<scraping_progress, thr, scraper>>

\* A faulty reset: the record is updated in place, so the keys of an
\* earlier harvest stay.
RunningProgressUpdate(num_pages, sheet_id, started) ==
    [scraping_progress EXCEPT !.status = "running", !.current_page = 0,
                              !.total_pages = Min(num_pages, MaxNumPages),
                              !.message = <<"Initializing job search">>,
                              !.filename = "", !.job_count = 0,
                              !.start_time = Some(started),
                              !.sheet_id = Some(sheet_id),
                              !.use_google_sheets = Some(sheet_id # "")]

\* Lines 128-142: the record a start request replaces scraping_progress with.
RunningProgress(num_pages, sheet_id, started) ==
    [status |-> "running", current_page |-> 0,
     total_pages |-> Min(num_pages, MaxNumPages),
     message |-> <<"Initializing job search">>, filename |-> "", job_count |-> 0,
     start_time |-> Some(started), sheet_id |-> Some(sheet_id),
     use_google_sheets |-> Some(sheet_id # ""),
     sheets_url |-> None, worksheet_name |-> None, end_time |-> None]

\* Lines 128-149: the record is replaced and the thread started.
ResetAndStart ==
    /\ \E h \in InFlight :
          LET t == Cardinality(Started) + 1
          IN  /\ h.pc = "reset"
              /\ t \in Threads
              /\ scraping_progress' = RunningProgress(h.num_pages, h.sheet_id, t)
              /\ thr' = [thr EXCEPT ![t] =
                            [IdleThread EXCEPT !.pc = "started",
                                               !.num_pages = Min(h.num_pages, MaxNumPages),
                                               !.sheet_id = h.sheet_id,
                                               !.use_google_sheets = (h.sheet_id # "")]]
              /\ handlers' = Without(h)
    /\ reply' = "success: Scraping started!"
    /\ UNCHANGED scraper

\* Lines 226-229: /progress answers with the record as it is.
GetProgress ==
    /\ reply' = "progress"
    /\ UNCHANGED <<scraping_progress, handlers, thr, scraper>>

(***************************************************************************)
(* app.py: scrape_jobs_thread.                                             *)
(***************************************************************************)
\* Lines 156-165: the first messages and the file name are written.
ThreadSetup(t) ==
    /\ thr[t].pc = "started"
    /\ scraping_progress' = [scraping_progress EXCEPT
                                !.message = <<"API method active">>,
                                !.filename = "keyword_jobs.csv"]
    /\ thr' = [thr EXCEPT ![t].pc = "scrape"]
    /\ UNCHANGED <<handlers, reply, scraper>>

\* A faulty check: an empty table is let through.
NoJobsFoundNever(df) == FALSE

\* if df.empty: raise Exception("No jobs found with the specified criteria")
NoJobsFound(df) == df = <<>>

\* Lines 171-177: the table has come back.  An empty table raises;
\* otherwise the thread turns to the sink the request selected.
ScrapeReturned(t, df) ==
    IF NoJobsFound(df)
    THEN /\ thr' = [thr EXCEPT ![t].pc = "except", ![t].df = df,
                               ![t].error = <<"No jobs found with the specified criteria">>]
         /\ UNCHANGED scraping_progress
    ELSE IF thr[t].use_google_sheets /\ thr[t].sheet_id # ""
    THEN /\ thr' = [thr EXCEPT ![t].pc = "upload", ![t].df = df]
         /\ scraping_progress' = [scraping_progress EXCEPT
                                     !.message = <<"Saving data to Google Sheets">>]
    ELSE /\ thr' = [thr EXCEPT ![t].pc = "to_csv", ![t].df = df]
         /\ UNCHANGED scraping_progress

\* Lines 168-169: the tables scrape_glassdoor_api may return to a thread
\* started with num_pages, which it calls with max_results = num_pages * 30.
AppTables ==
    [num_pages \in {Min(p, MaxNumPages) : p \in FormPages} |->
        scrape_glassdoor_api("app", num_pages * PagesPerJobs)]

\* Lines 168-177: scrape_glassdoor_api runs with max_results = num_pages * 30
\* on a scraper of its own and returns its table.
ThreadScrape(t) ==
    /\ thr[t].pc = "scrape"
    /\ \E df \in AppTables[thr[t].num_pages] :
          ScrapeReturned(t, df)
    /\ UNCHANGED <<handlers, reply, scraper>>

\* What GoogleSheetsHandler() and save_jobs_to_sheet do: the handler's
\* authentication raises, the save raises before or after the rows were
\* written, or the save returns its confirmation.
UploadOutcomes == {"auth_raises", "raises", "raises_after_update", "saved"}

\* The exception the except clause of line 192 raises in place of the sink's.
SheetsError(text) == <<"Failed to save data to Google Sheets: ", text>>

\* A faulty sink handling: a failed upload falls back to the CSV file.
AfterSinkFallback(th, sink, outcome) ==
    IF outcome \in {"saved", "written"}
    THEN [th EXCEPT !.pc = "complete", !.sinks = Append(@, <<sink, outcome>>)]
    ELSE IF sink = "sheets"
    THEN [th EXCEPT !.pc = "to_csv", !.sinks = Append(@, <<sink, outcome>>)]
    ELSE [th EXCEPT !.pc = "except", !.sinks = Append(@, <<sink, outcome>>),
                    !.error = <<outcome>>]

\* Where the thread goes after a sink call: on to the completion, or into
\* the except clause of line 222 with the exception's text.
AfterSink(th, sink, outcome) ==
    IF outcome \in {"saved", "written"}
    THEN [th EXCEPT !.pc = "complete", !.sinks = Append(@, <<sink, outcome>>)]
    ELSE [th EXCEPT !.pc = "except", !.sinks = Append(@, <<sink, outcome>>),
                    !.error = IF sink = "sheets" THEN SheetsError(outcome)
                              ELSE <<outcome>>]

\* Lines 209-210: after a sink call that succeeded, job_count is written.
JobCounted(th) ==
    IF th.pc = "complete"
    THEN [scraping_progress EXCEPT !.job_count = Len(th.df)]
    ELSE scraping_progress

\* Lines 178-195 and 202-210: the upload to the spreadsheet, which does not
\* touch the status record, and after it the write of job_count.
ThreadUpload(t) ==
    /\ thr[t].pc = "upload"
    /\ \E outcome \in UploadOutcomes :
          LET th == AfterSink(thr[t], "sheets", outcome)
          IN  /\ thr' = [thr EXCEPT ![t] = th]
              /\ scraping_progress' = JobCounted(th)
    /\ UNCHANGED <<handlers, reply, scraper>>

\* Lines 196-210: the CSV file is written, or to_csv raises; after the file
\* job_count is written.
ThreadWriteCsv(t) ==
    /\ thr[t].pc = "to_csv"
    /\ \E outcome \in {"written", "to_csv_raises"} :
          LET th == AfterSink(thr[t], "csv", outcome)
          IN  /\ thr' = [thr EXCEPT ![t] = th]
              /\ scraping_progress' = JobCounted(th)
    /\ UNCHANGED <<handlers, reply, scraper>>

\* Line 211: the status 'completed'.
ThreadComplete(t) ==
    /\ thr[t].pc = "complete"
    /\ scraping_progress' = [scraping_progress EXCEPT !.status = "completed"]
    /\ thr' = [thr EXCEPT ![t].pc = "finish", ![t].wrote = Append(@, "completed")]
    /\ UNCHANGED <<handlers, reply, scraper>>

\* Lines 213-220: the closing message, the sheet's address and end_time.
ThreadFinish(t) ==
    /\ thr[t].pc = "finish"
    /\ scraping_progress' =
          IF thr[t].sinks = <<<<"sheets", "saved">>>>
          THEN [scraping_progress EXCEPT
                   !.message = <<"Mission accomplished", "Saved to Google Sheets">>,
                   !.sheets_url = Some(thr[t].sheet_id),
                   !.worksheet_name = Some("keyword_jobs"),
                   !.end_time = Some(t)]
          ELSE [scraping_progress EXCEPT
                   !.message = <<"Scraping complete", "Ready for download">>,
                   !.end_time = Some(t)]
    /\ thr' = [thr EXCEPT ![t].pc = "done"]
    /\ UNCHANGED <<handlers, reply, scraper>>

\* The message of line 224, around str(e).
ErrorMessage(error) == <<"Scraping interrupted">> \o error \o <<"Please try again">>

\* Line 223: the except clause writes the status 'error'.
ThreadExceptStatus(t) ==
    /\ thr[t].pc = "except"
    /\ scraping_progress' = [scraping_progress EXCEPT !.status = "error"]
    /\ thr' = [thr EXCEPT ![t].pc = "except_message", ![t].wrote = Append(@, "error")]
    /\ UNCHANGED <<handlers, reply, scraper>>

\* Line 224: and the message.
ThreadExceptMessage(t) ==
    /\ thr[t].pc = "except_message"
    /\ scraping_progress' = [scraping_progress EXCEPT !.message = ErrorMessage(thr[t].error)]
    /\ thr' = [thr EXCEPT ![t].pc = "done"]
    /\ UNCHANGED <<handlers, reply, scraper>>

(***************************************************************************)
(* Spec: the web application, its clients and its harvest threads.         *)
(***************************************************************************)
Init ==
    /\ scraping_progress = IdleProgress
    /\ handlers = EmptyBag
    /\ reply = "none"
    /\ thr = [t \in Threads |-> IdleThread]
    /\ scraper = IdleScraper

Next ==
    \/ StartRequest
    \/ ValidateSheet
    \/ ResetAndStart
    \/ GetProgress
    \/ \E t \in Threads : ThreadSetup(t)
    \/ \E t \in Threads : ThreadScrape(t)
    \/ \E t \in Threads : ThreadUpload(t)
    \/ \E t \in Threads : ThreadWriteCsv(t)
    \/ \E t \in Threads : ThreadComplete(t)
    \/ \E t \in Threads : ThreadFinish(t)
    \/ \E t \in Threads : ThreadExceptStatus(t)
    \/ \E t \in Threads : ThreadExceptMessage(t)

Spec == Init /\ [][Next]_vars

(***************************************************************************)
(* SpecHarvest: scrape_glassdoor_api called directly (main.py line 36,     *)
(* test_api_scraper) with any max_results, against any upstream.           *)
(***************************************************************************)
InitializeSession ==
    /\ scraper.pc = "initialize_session"
    /\ scraper' \in AfterInitializeSession(scraper)
    /\ UNCHANGED <<scraping_progress, handlers, reply, thr>>

ResolveLocation ==
    /\ scraper.pc = "get_location_id"
    /\ scraper' \in AfterResolveLocation(scraper)
    /\ UNCHANGED <<scraping_progress, handlers, reply, thr>>

FetchPage ==
    /\ CanFetch(scraper)
    /\ scraper' \in AfterFetchPage(scraper)
    /\ UNCHANGED <<scraping_progress, handlers, reply, thr>>

SearchJobsReturn ==
    /\ LoopEnded(scraper)
    /\ scraper' \in AfterSearchJobsReturn(scraper)
    /\ UNCHANGED <<scraping_progress, handlers, reply, thr>>

Assemble ==
    /\ scraper.pc = "assemble"
    /\ scraper' \in AfterAssemble(scraper)
    /\ UNCHANGED <<scraping_progress, handlers, reply, thr>>

\* The max_results of a direct call: the small values, and over full pages
\* also one page's worth and 50.
ResultCaps(upstream) ==
    CASE upstream = "full" -> (0..MaxCap) \cup {30, 50}
      [] upstream = "faulty" -> {MaxCap}
      [] OTHER -> 0..MaxCap

InitHarvest ==
    /\ scraping_progress = IdleProgress
    /\ handlers = EmptyBag
    /\ reply = "none"
    /\ thr = [t \in Threads |-> IdleThread]
    /\ \E upstream \in {"small", "full", "faulty", "repeating"} :
          \E max_results \in ResultCaps(upstream) :
              scraper = NewScraper(upstream, max_results)

NextHarvest ==
    \/ InitializeSession
    \/ ResolveLocation
    \/ FetchPage
    \/ SearchJobsReturn
    \/ Assemble

SpecHarvest == InitHarvest /\ [][NextHarvest]_vars

(***************************************************************************)
(* What the claims speak of.                                               *)
(***************************************************************************)
\* The raw listings of all the pages received so far, in fetch order.
(***************************************************************************)
(* SpecLive: the web application with the harvest of a thread taken step   *)
(* by step, under the scheduling the threads have: a started thread keeps  *)
(* running, and every blocking call returns or raises.  A harvest touches  *)
(* only the scraper its call created, so its steps commute with the steps  *)
(* of every other thread; they are taken for one harvest at a time.  The   *)
(* /progress reader, which changes nothing of the process, is left out.    *)
(***************************************************************************)
\* Line 169: the thread calls scrape_glassdoor_api.
ThreadCallScrape(t) ==
    /\ thr[t].pc = "scrape"
    /\ scraper.pc = "idle"
    /\ scraper' = NewScraper("app", thr[t].num_pages * PagesPerJobs)
    /\ thr' = [thr EXCEPT ![t].pc = "scraping"]
    /\ UNCHANGED <<scraping_progress, handlers, reply>>

\* Lines 169-177: the call returns its table to the thread.
ThreadScrapeReturns(t) ==
    /\ thr[t].pc = "scraping"
    /\ scraper.pc = "returned"
    /\ ScrapeReturned(t, scraper.df)
    /\ scraper' = IdleScraper
    /\ UNCHANGED <<handlers, reply>>

\* The steps of thread t.
ThreadStep(t) ==
    \/ ThreadSetup(t)
    \/ ThreadCallScrape(t)
    \/ ThreadScrapeReturns(t)
    \/ ThreadUpload(t)
    \/ ThreadWriteCsv(t)
    \/ ThreadComplete(t)
    \/ ThreadFinish(t)
    \/ ThreadExceptStatus(t)
    \/ ThreadExceptMessage(t)

NextLive ==
    \/ StartRequest
    \/ ValidateSheet
    \/ ResetAndStart
    \/ \E t \in Threads : ThreadStep(t)
    \/ InitializeSession
    \/ ResolveLocation
    \/ FetchPage
    \/ SearchJobsReturn
    \/ Assemble

SpecLive ==
    /\ Init
    /\ [][NextLive]_vars
    /\ \A t \in Threads : WF_vars(ThreadStep(t))
    /\ WF_vars(NextHarvest)

(***************************************************************************)
(* SpecResolver: get_location_id called on a scraper of its own, against   *)
(* any answer of the location endpoint.                                    *)
(***************************************************************************)
\* Lines 174-214 on a new scraper: no request for an empty location; else
\* the session is set up first (line 180) and the lookup is sent.
GetLocationId ==
    /\ scraper.pc = "resolver_call"
    /\ \E s \in IF scraper.lookup[1].kind = "empty_input" THEN {scraper}
                 ELSE AfterInitializeSession(scraper) :
          LET loc == get_location_id(scraper.lookup[1])
          IN  scraper' = [s EXCEPT !.location_id = loc[1], !.location_type = loc[2],
                                   !.pc = "resolver_returned"]
    /\ UNCHANGED <<scraping_progress, handlers, reply, thr>>

InitResolver ==
    /\ scraping_progress = IdleProgress
    /\ handlers = EmptyBag
    /\ reply = "none"
    /\ thr = [t \in Threads |-> IdleThread]
    /\ \E lookup \in ResolverLookups :
          scraper = [IdleScraper EXCEPT !.pc = "resolver_call", !.lookup = Some(lookup)]

NextResolver == GetLocationId

SpecResolver == InitResolver /\ [][NextResolver]_vars

RECURSIVE FetchedListings(_)
FetchedListings(responses) ==
    IF responses = <<>> THEN <<>>
    ELSE FetchedListings(SubSeq(responses, 1, Len(responses) - 1))
            \o responses[Len(responses)].jobListings

Fetched == FetchedListings(scraper.responses)
Normalized == ProcessPage(Fetched)
Rows(table) == {table[i] : i \in 1..Len(table)}
Urls(table) == {table[i].job_url : i \in 1..Len(table)}

\* search_jobs has returned; scrape_glassdoor_api has returned.
JobsReturned == scraper.pc \in {"assemble", "returned"}
TableReturned == scraper.pc = "returned"

ActiveThreads == {t \in Threads : Active(t)}

\* The only thread the process has started.
Alone(t) == \A u \in Threads \ {t} : thr[u].pc = "unstarted"

\* C1: at most one harvest thread is active at any time, whatever the
\* interleaving of the start requests.
C1_AtMostOneHarvestActive == Cardinality(ActiveThreads) <= 1

\* C2: no two rows of the table scrape_glassdoor_api returns share a job_url.
C2_NoSharedJobUrl ==
    TableReturned =>
        \A i, j \in 1..Len(scraper.df) :
            i # j => scraper.df[i].job_url # scraper.df[j].job_url

\* C2's case: one listing came on both pages, with different ages, and the
\* table holds it once.
C2_Witness ==
    /\ TableReturned
    /\ Len(scraper.responses) = 2
    /\ Len(scraper.jobs) = 2
    /\ scraper.jobs[1].job_url = scraper.jobs[2].job_url
    /\ scraper.jobs[1] # scraper.jobs[2]
    /\ Len(scraper.df) = 1

\* C3: the table, and the list search_jobs returns, hold at most
\* max_results records.
C3_AtMostMaxResults ==
    /\ JobsReturned => Len(scraper.jobs) <= scraper.max_results
    /\ TableReturned => Len(scraper.df) <= scraper.max_results

\* C3's case: the last page pushed the accumulator past max_results.
C3_Witness ==
    /\ TableReturned
    /\ scraper.max_results > 0
    /\ Len(scraper.all_jobs) > scraper.max_results
    /\ Len(scraper.df) = scraper.max_results

\* C4: the rows are in non-increasing order of date_posted, and every row
\* without a date comes after every row with one.
C4_SortedByDatePosted ==
    TableReturned =>
        \A i, j \in 1..Len(scraper.df) :
            i < j =>
                LET a == scraper.df[i].date_posted
                    b == scraper.df[j].date_posted
                IN  /\ a = None => b = None
                    /\ (a # None /\ b # None) => a[1] >= b[1]

\* C4's case: the records were fetched in the opposite order, an undated
\* one before a dated one.
C4_Witness ==
    /\ TableReturned
    /\ Len(scraper.df) = 2
    /\ scraper.jobs[1].date_posted = None
    /\ scraper.jobs[2].date_posted # None
    /\ scraper.df[1] = scraper.jobs[2]
    /\ scraper.df[2] = scraper.jobs[1]

\* C5: with max_results = 0 no page request is sent, the result is empty,
\* and the call runs on to its return.
C5_ZeroResultsNoRequest ==
    scraper.max_results = 0 =>
        /\ scraper.requests = <<>>
        /\ JobsReturned => scraper.jobs = <<>>
        /\ TableReturned => scraper.df = <<>>
        /\ scraper.pc \in {"initialize_session", "get_location_id", "loop",
                           "assemble", "returned"}
        /\ ~TableReturned => ENABLED NextHarvest

\* C5's case: the location was resolved, the loop was reached and left
\* without a request.
C5_Witness ==
    /\ scraper.max_results = 0
    /\ TableReturned
    /\ scraper.location_id = DefaultLocationId
    /\ scraper.max_pages = 2
    /\ scraper.requests = <<>>

\* Every page so far was a 200 answer whose listings all normalize and
\* whose cursor list names a cursor for the following page, and no two
\* listings share a job URL.
RegularUpstream ==
    /\ \A k \in 1..Len(scraper.responses) :
          LET r == scraper.responses[k]
          IN  /\ r.kind = "ok"
              /\ ~r.cursors_raise
              /\ \E i \in 1..Len(r.paginationCursors) :
                    /\ r.paginationCursors[i].pageNumber = k + 1
                    /\ r.paginationCursors[i].cursor # ""
              /\ \A i \in 1..Len(r.jobListings) : process_job(r.jobListings[i]) # None
    /\ \A i, j \in 1..Len(Fetched) :
          i # j => Fetched[i].listingId # Fetched[j].listingId

\* C6: over such an upstream the table holds exactly min(max_results,
\* listings fetched) records, the first that many of the fetched ones.
C6_ExactlyMinOfCapAndFetched ==
    (TableReturned /\ RegularUpstream) =>
        LET n == Min(scraper.max_results, Len(Fetched))
        IN  /\ Len(scraper.df) = n
            /\ Rows(scraper.df) = Rows(SubSeq(Normalized, 1, n))

\* C6's case: max_results = 50 over two pages of 30 listings.
C6_Witness ==
    /\ TableReturned
    /\ RegularUpstream
    /\ scraper.max_results = 50
    /\ Len(scraper.responses) = 2
    /\ Len(Fetched) = 60
    /\ Len(scraper.df) = 50

\* The answer to the request for page k names no cursor for page k + 1.
NoNextEntry(r, k) ==
    /\ r.kind = "ok"
    /\ ~r.cursors_raise
    /\ \A i \in 1..Len(r.paginationCursors) : r.paginationCursors[i].pageNumber # k + 1

\* C7: when the answer for page k has no cursor entry for page k + 1, page
\* k is the last page requested, and the records accumulated through it
\* are what search_jobs returns (up to max_results), without an error.
C7_NoCursorEndsHarvest ==
    \A k \in 1..Len(scraper.responses) :
        NoNextEntry(scraper.responses[k], k) =>
            /\ Len(scraper.requests) = k
            /\ scraper.all_jobs = Normalized
            /\ scraper.pc \in {"break", "assemble", "returned"}
            /\ JobsReturned =>
                  scraper.jobs = SubSeq(Normalized, 1,
                                        Min(scraper.max_results, Len(Normalized)))
            /\ (TableReturned /\ Normalized # <<>>) => ~NoJobsFound(scraper.df)

\* C7's case: page 1 brought two listings and a cursor list with an entry
\* for another page only, while the caps allowed a second page.
C7_Witness ==
    /\ TableReturned
    /\ scraper.max_results = 3
    /\ Len(scraper.responses) = 1
    /\ Len(scraper.responses[1].jobListings) = 2
    /\ scraper.responses[1].paginationCursors = <<CursorEntry(3, "b")>>
    /\ Len(scraper.jobs) = 2
    /\ Len(scraper.df) = 2

\* The last page request failed: a non-200 answer, a payload without data,
\* or an exception.
LastPageFailed ==
    /\ scraper.responses # <<>>
    /\ scraper.responses[Len(scraper.responses)].kind # "ok"

\* C8: a failed page request ends the loop and discards nothing: the
\* records of the pages before it are returned, and the harvest counts as
\* failed (an empty table, which scrape_jobs_thread raises on) only when
\* there were none.
C8_PageFailureKeepsRecords ==
    LastPageFailed =>
        /\ scraper.pc \in {"break", "assemble", "returned"}
        /\ scraper.all_jobs = Normalized
        /\ JobsReturned => scraper.jobs = Normalized
        /\ TableReturned =>
              /\ Urls(scraper.df) = Urls(Normalized)
              /\ NoJobsFound(scraper.df) <=> Normalized = <<>>

\* C8's case: page 1 brought a record and the request for page 2 failed.
C8_Witness ==
    /\ TableReturned
    /\ LastPageFailed
    /\ Len(scraper.responses) = 2
    /\ Len(scraper.requests) = 2
    /\ Len(scraper.df) = 1
    /\ ~NoJobsFound(scraper.df)

\* The thread's harvest came back with zero records.
ZeroRecords(t) == thr[t].pc \notin {"unstarted", "started", "scrape"} /\ thr[t].df = <<>>

\* C9: a harvest of zero records ends in the status 'error' with the
\* message of the failure, invokes no sink, and never writes 'completed'.
C9_ZeroRecordsIsError ==
    \A t \in Threads :
        ZeroRecords(t) =>
            /\ thr[t].pc \in {"except", "except_message", "done"}
            /\ thr[t].sinks = <<>>
            /\ thr[t].error = <<"No jobs found with the specified criteria">>
            /\ \A i \in 1..Len(thr[t].wrote) : thr[t].wrote[i] # "completed"
            /\ thr[t].pc = "done" => thr[t].wrote = <<"error">>
            /\ (thr[t].pc = "done" /\ Alone(t)) =>
                  /\ scraping_progress.status = "error"
                  /\ scraping_progress.message = ErrorMessage(thr[t].error)

\* C9's case: a harvest over one page budget found nothing and has ended.
C9_Witness ==
    \E t \in Threads :
        /\ thr[t].pc = "done"
        /\ thr[t].num_pages = 1
        /\ thr[t].df = <<>>
        /\ scraping_progress.status = "error"

\* The sink the thread called failed.
SinkFailed(t) ==
    /\ thr[t].sinks # <<>>
    /\ thr[t].sinks[1][2] \notin {"saved", "written"}

\* C10: when the selected sink fails the harvest ends in the status
\* 'error' with the sink's error text, and no other sink is called.
C10_SinkFailureIsError ==
    \A t \in Threads :
        SinkFailed(t) =>
            /\ Len(thr[t].sinks) = 1
            /\ thr[t].pc \in {"except", "except_message", "done"}
            /\ thr[t].error # <<>>
            /\ thr[t].error[Len(thr[t].error)] = thr[t].sinks[1][2]
            /\ \A i \in 1..Len(thr[t].wrote) : thr[t].wrote[i] # "completed"
            /\ thr[t].pc = "done" => thr[t].wrote = <<"error">>
            /\ (thr[t].pc = "done" /\ Alone(t)) =>
                  /\ scraping_progress.status = "error"
                  /\ scraping_progress.message = ErrorMessage(thr[t].error)

\* C10's case: the upload raised and the harvest has ended.
C10_Witness ==
    \E t \in Threads :
        /\ thr[t].pc = "done"
        /\ thr[t].sinks = << <<"sheets", "raises">> >>
        /\ scraping_progress.status = "error"
        /\ scraping_progress.message =
              <<"Scraping interrupted", "Failed to save data to Google Sheets: ",
                "raises", "Please try again">>

(***************************************************************************)
(* The status record's writers.                                            *)
(***************************************************************************)
\* Harvest t has been started and has not yet written its terminal status.
Running(t) == thr[t].pc # "unstarted" /\ thr[t].wrote = <<>>

\* C11: while a harvest is running it is the only writer of the status
\* record: a step that changes the record while harvest t runs is a step of
\* thread t, and the /progress reader changes nothing of it.
C11_RunningHarvestIsOnlyWriter ==
    /\ [][\A t \in Threads :
            (Running(t) /\ scraping_progress' # scraping_progress) => thr'[t] # thr[t]]_vars
    /\ [][GetProgress => scraping_progress' = scraping_progress]_vars

\* C12: an accepted start leaves the record as the literal of lines 132-142
\* and nothing else: status 'running', the counters at zero, no file name,
\* the start's own message, and none of the keys an earlier harvest added.
C12_StartReplacesRecord ==
    [][ResetAndStart =>
          /\ scraping_progress'.status = "running"
          /\ scraping_progress'.current_page = 0
          /\ scraping_progress'.job_count = 0
          /\ scraping_progress'.filename = ""
          /\ scraping_progress'.message = <<"Initializing job search">>
          /\ scraping_progress'.sheets_url = None
          /\ scraping_progress'.worksheet_name = None
          /\ scraping_progress'.end_time = None]_vars

\* C12's case: the first harvest was saved to the spreadsheet and ended,
\* and the second start has just replaced its record.
C12_Witness ==
    /\ thr[1].pc = "done"
    /\ thr[1].sinks = <<<<"sheets", "saved">>>>
    /\ thr[1].wrote = <<"completed">>
    /\ thr[2].pc = "started"
    /\ scraping_progress.status = "running"
    /\ scraping_progress.start_time = Some(2)
    /\ scraping_progress.sheets_url = None
    /\ scraping_progress.end_time = None


(***************************************************************************)
(* The location resolver.                                                  *)
(***************************************************************************)
\* The first suggestion carries a locationId that is a number other than 0
\* (search_jobs line 228 takes 0 for unresolved) and one of the three type
\* letters.
UsableSuggestion(lookup) ==
    /\ lookup.kind = "found"
    /\ lookup.locationId.form \in {"int", "digits"}
    /\ lookup.locationId.value # 0
    /\ lookup.locationType \in {"C", "S", "N"}

ResolverReturned == scraper.pc = "resolver_returned"

\* C14: get_location_id returns (11047, STATE) for an empty location, an
\* empty suggestion list, a non-200 answer, a transport error and a
\* malformed first suggestion, and something else only for a first
\* suggestion with a usable locationId and type.
C14_ResolverDefaultsUnlessUsable ==
    ResolverReturned =>
        \/ UsableSuggestion(scraper.lookup[1])
        \/ /\ scraper.location_id = DefaultLocationId
           /\ scraper.location_type = "STATE"


(***************************************************************************)
(* The session bootstrap.                                                  *)
(***************************************************************************)
\* initialize_session has returned to search_jobs.
SessionInitialized == scraper.pc \notin {"idle", "initialize_session"}

\* C15: initialize_session returns with a token whatever the bootstrap
\* fetch did, the one of the page if it was found and the fallback
\* otherwise, and the gd-csrf-token header carries it when the location
\* lookup and every page request are sent.
C15_BootstrapAlwaysYieldsToken ==
    /\ SessionInitialized =>
          /\ scraper.bootstrap # None
          /\ scraper.csrf_token # None
          /\ scraper.csrf_token =
                 IF scraper.bootstrap = Some("token_found")
                 THEN Some("page_token") ELSE Some(FallbackToken)
          /\ scraper.csrf_header = scraper.csrf_token
    /\ scraper.pc \in {"get_location_id", "loop"} => scraper.csrf_header # None
    /\ \A k \in 1..Len(scraper.requests) :
          /\ scraper.requests[k].csrf # None
          /\ scraper.requests[k].csrf = scraper.csrf_token

\* C15's case: the bootstrap fetch raised and the harvest went on to send
\* two page requests under the fallback token.
C15_Witness ==
    /\ TableReturned
    /\ scraper.bootstrap = Some("raises")
    /\ scraper.csrf_token = Some(FallbackToken)
    /\ Len(scraper.requests) = 2
    /\ scraper.requests[2].csrf = Some(FallbackToken)
    /\ scraper.df # <<>>


(***************************************************************************)
(* The normalizer inside the page loop, and the page requests.             *)
(***************************************************************************)
\* The raw listing has the blocks, the identifier and the title key that
\* process_job reads.
Normalizes(raw) ==
    /\ raw.has_jobview /\ raw.has_header /\ raw.has_job
    /\ raw.listingId # 0
    /\ raw.jobTitleText # "<absent>"

\* C16: a raw listing without listingId is skipped: process_job returns
\* None for it and no record of it, not even a partly filled one, is in
\* the accumulator.
C16_NoIdentifierNoRecord ==
    /\ \A i \in 1..Len(Fetched) :
          Fetched[i].listingId = 0 => process_job(Fetched[i]) = None
    /\ \A i \in 1..Len(scraper.all_jobs) : scraper.all_jobs[i].job_url # JobUrl(0)
    /\ Len(scraper.all_jobs) <= Cardinality({i \in 1..Len(Fetched) : Fetched[i].listingId # 0})

\* C16's case: a page of a listing without identifier followed by a sound
\* one; the accumulator has the sound one only.
C16_Witness ==
    /\ TableReturned
    /\ Len(scraper.responses) = 1
    /\ Len(Fetched) = 2
    /\ Fetched[1].listingId = 0 /\ Fetched[1].has_job
    /\ Fetched[2].listingId = 1
    /\ Len(scraper.all_jobs) = 1
    /\ scraper.all_jobs[1].job_url = JobUrl(1)

\* C17: a harvest sends at most min(30, max_results div 30 + 2) page
\* requests, and none when the accumulator already holds max_results
\* records.
C17_PageRequestsWithinCaps ==
    /\ [](Len(scraper.requests) <= Min(30, (scraper.max_results \div 30) + 2))
    /\ [][Len(scraper'.requests) > Len(scraper.requests) =>
             Len(scraper.all_jobs) < scraper.max_results]_vars

\* C17's case: the page cap ended the loop: the last answer named a cursor
\* for the next page and the accumulator was short of max_results.
C17_Witness ==
    /\ TableReturned
    /\ Len(scraper.requests) = 2
    /\ Min(30, (scraper.max_results \div 30) + 2) = 2
    /\ scraper.cursor = "a"
    /\ scraper.page = 3
    /\ Len(scraper.all_jobs) < scraper.max_results

\* C18: when the answer for page k has a listing and its cursor list has
\* an entry for page k + 1, the harvester takes that entry's cursor and
\* moves to page k + 1, whatever the cursor's value.
C18_CursorEntryAdvancesPage ==
    LET k == Len(scraper.responses)
    IN  \A i \in 1..(IF k = 0 THEN 0 ELSE Len(scraper.responses[k].paginationCursors)) :
            LET r == scraper.responses[k]
            IN  (/\ r.kind = "ok"
                 /\ r.jobListings # <<>>
                 /\ r.paginationCursors[i].pageNumber = k + 1
                 /\ \A j \in 1..(i - 1) : r.paginationCursors[j].pageNumber # k + 1)
                => /\ scraper.page = k + 1
                   /\ scraper.cursor = r.paginationCursors[i].cursor

\* C19: the page requests carry the page numbers 1, 2, ... in order, each
\* once; the first carries no cursor and every later one the cursor the
\* answer before it listed for its page.
C19_PagesInOrderWithListedCursor ==
    /\ Len(scraper.responses) = Len(scraper.requests)
    /\ \A k \in 1..Len(scraper.requests) :
          /\ scraper.requests[k].pageNumber = k
          /\ k = 1 => scraper.requests[k].pageCursor = NoCursor
          /\ k > 1 =>
                LET listed == scraper.responses[k - 1].paginationCursors
                IN  \E i \in 1..Len(listed) :
                        /\ listed[i].pageNumber = k
                        /\ listed[i].cursor = scraper.requests[k].pageCursor
                        /\ \A j \in 1..(i - 1) : listed[j].pageNumber # k

\* C19's case: the answer for page 1 listed cursors for pages 1 and 2 and
\* the request for page 2 carried the second; it failed and was not sent again.
C19_Witness ==
    /\ TableReturned
    /\ Len(scraper.requests) = 2
    /\ scraper.responses[1].paginationCursors = <<CursorEntry(1, "a"), CursorEntry(2, "b")>>
    /\ scraper.requests[2].pageCursor = "b"
    /\ scraper.responses[2].kind = "http_error"

\* The fetched listings that normalize, in fetch order.
Sound == SelectSeq(Fetched, Normalizes)

\* C20: a listing that fails to normalize is skipped and nothing more: the
\* accumulator holds the records of exactly the other listings, in page
\* order, and the step to the next page is taken as the cursor list says.
C20_FailedListingSkippedOnly ==
    /\ Len(scraper.all_jobs) = Len(Sound)
    /\ \A i \in 1..Len(scraper.all_jobs) :
          scraper.all_jobs[i].job_url = JobUrl(Sound[i].listingId)
    /\ LET k == Len(scraper.responses)
       IN  (/\ k > 0
            /\ scraper.responses[k].kind = "ok"
            /\ ~scraper.responses[k].cursors_raise
            /\ scraper.responses[k].jobListings # <<>>
            /\ \E i \in 1..Len(scraper.responses[k].paginationCursors) :
                  /\ scraper.responses[k].paginationCursors[i].pageNumber = k + 1
                  /\ scraper.responses[k].paginationCursors[i].cursor # "")
           => scraper.page = k + 1 /\ scraper.pc # "break"

\* C20's case: page 1 held a listing without header block and a sound one
\* after it, and named a cursor; the sound one was kept and page 2 requested.
C20_Witness ==
    /\ TableReturned
    /\ scraper.upstream = "faulty"
    /\ Len(scraper.requests) = 2
    /\ Len(scraper.responses[1].jobListings) = 2
    /\ ~scraper.responses[1].jobListings[1].has_header
    /\ Normalizes(scraper.responses[1].jobListings[2])
    /\ Len(scraper.all_jobs) = 1
    /\ Len(scraper.df) = 1

(***************************************************************************)
(* Termination.                                                            *)
(***************************************************************************)
\* C13: every started harvest terminates: its scrape_glassdoor_api call
\* returns, the thread reaches its end, and the status record leaves
\* 'running' for 'completed' or 'error', whatever the upstream answers.
C13_EveryHarvestTerminates ==
    /\ \A t \in Threads : (thr[t].pc # "unstarted") ~> (thr[t].pc = "done" /\ thr[t].wrote # <<>>)
    /\ (scraper.pc # "idle") ~> (scraper.pc = "returned")
    /\ (scraping_progress.status = "running")
          ~> (scraping_progress.status \in {"completed", "error"})

\* C13's case: every answer named a cursor for the next page, and the
\* call has returned after the request for page max_pages.
C13_Witness ==
    /\ thr[1].pc = "scraping"
    /\ scraper.pc = "returned"
    /\ scraper.max_results = 30
    /\ Len(scraper.requests) = 3
    /\ \A k \in 1..3 : scraper.responses[k].paginationCursors = <<CursorEntry(k + 1, "a")>>
    /\ scraper.cursor = "a"


(***************************************************************************)
(* C21: an empty page ends the harvest.                                    *)
(***************************************************************************)

\* The answer r is a well-formed page without listings.
EmptyPage(r) == r.kind = "ok" /\ r.jobListings = <<>>

\* C21: when the answer for page k brings no listings, page k is the last
\* page requested, whatever cursor the answer lists for page k + 1, and
\* the records of the pages before it are what search_jobs returns (up to
\* max_results).
C21_EmptyPageEndsHarvest ==
    \A k \in 1..Len(scraper.responses) :
        EmptyPage(scraper.responses[k]) =>
            /\ Len(scraper.requests) = k
            /\ scraper.pc \in {"break", "assemble", "returned"}
            /\ scraper.all_jobs = Normalized
            /\ JobsReturned =>
                  scraper.jobs = SubSeq(Normalized, 1,
                                        Min(scraper.max_results, Len(Normalized)))
            /\ TableReturned => Urls(scraper.df) = Urls(scraper.jobs)

\* C21's case: page 1 brought a record and a cursor for page 2, and page 2
\* came back empty with a cursor for page 3, while the result cap was not
\* reached.
C21_Witness ==
    /\ TableReturned
    /\ scraper.max_results = 3
    /\ Len(scraper.responses) = 2
    /\ Len(scraper.responses[1].jobListings) = 1
    /\ EmptyPage(scraper.responses[2])
    /\ scraper.responses[2].paginationCursors = <<CursorEntry(3, "a")>>
    /\ Len(scraper.requests) = 2
    /\ Len(scraper.df) = 1

(***************************************************************************)
(* C22: deduplication keeps the first record of a job_url.                 *)
(***************************************************************************)

\* The place in the fetch-ordered records `fetched` (page, then position
\* in the page) of the first record with the job_url u.
FirstFetched(fetched, u) ==
    CHOOSE i \in 1..Len(fetched) :
        /\ fetched[i].job_url = u
        /\ \A j \in 1..(i - 1) : fetched[j].job_url # u

\* C22: of the records search_jobs returned that share a job_url, the
\* table holds exactly one row, and it is the one accumulated first (the
\* accumulator is in fetch order, C20); the later ones are not in the table.
C22_FirstOfJobUrlKept ==
    TableReturned =>
        LET fetched == scraper.all_jobs
            table == scraper.df
        IN  \A u \in Urls(scraper.jobs) :
                LET first == fetched[FirstFetched(fetched, u)]
                IN  /\ \E k \in 1..Len(table) :
                          /\ table[k] = first
                          /\ \A l \in 1..Len(table) : table[l].job_url = u => l = k
                    /\ \A j \in 1..Len(scraper.jobs) :
                          (scraper.jobs[j].job_url = u /\ scraper.jobs[j] # first)
                              => scraper.jobs[j] \notin Rows(table)

\* C22's case: one page brought the same listing twice, with different
\* ages, and the table holds the record of the first position only.
C22_Witness ==
    /\ TableReturned
    /\ Len(scraper.responses) = 1
    /\ Len(scraper.jobs) = 2
    /\ scraper.jobs[1].job_url = scraper.jobs[2].job_url
    /\ scraper.jobs[1].date_posted # scraper.jobs[2].date_posted
    /\ scraper.df = <<scraper.jobs[1]>>

(***************************************************************************)
(* C23: the title of a record.                                             *)
(***************************************************************************)

\* The listing has its blocks and a listing identifier.
Identified(raw) ==
    raw.has_jobview /\ raw.has_header /\ raw.has_job /\ raw.listingId # 0

\* The job block's title when it is there and not empty, else the
\* header's.
PreferredTitle(raw) ==
    IF raw.jobTitleText \notin {"", "<absent>"} THEN raw.jobTitleText
    ELSE raw.headerTitleText

\* C23: every fetched listing that has a listing identifier yields a
\* record, also when its job block has no title or an empty one, and the
\* record's title is the job block's title when that is present and not
\* empty, else the header's.
C23_TitleFallsBackToHeader ==
    LET identified == SelectSeq(Fetched, Identified)
    IN  /\ Len(scraper.all_jobs) = Len(identified)
        /\ \A i \in 1..Len(identified) :
              i <= Len(scraper.all_jobs) =>
                  /\ scraper.all_jobs[i].job_url = JobUrl(identified[i].listingId)
                  /\ scraper.all_jobs[i].title = PreferredTitle(identified[i])

(***************************************************************************)
(* C24: a rejected start request writes nothing.                           *)
(***************************************************************************)

\* The replies of lines 103, 115, 124 and 126.
Rejections ==
    {"error: Scraping is already in progress",
     "error: Invalid Google Sheet ID",
     "error: Cannot access Google Sheet",
     "error: Google Sheets validation failed"}

\* A start handler returns a rejection in this step.
StartRejected ==
    /\ reply' \in Rejections
    /\ reply' # reply \/ handlers' # handlers

\* C24: the step in which a start request is rejected (a harvest is
\* running, the sheet id is too short, the sheet validation fails or
\* raises) leaves every field of the status record as it was and starts no
\* harvest thread.
C24_RejectedStartWritesNothing ==
    [][StartRejected => UNCHANGED <<scraping_progress, thr>>]_vars

\* C24's case: after a harvest completed, a further start request was
\* rejected by the sheet validation; the record is still the completed
\* harvest's and no second thread exists.
C24_Witness ==
    /\ reply = "error: Cannot access Google Sheet"
    /\ handlers = EmptyBag
    /\ scraping_progress.status = "completed"
    /\ scraping_progress.end_time # None
    /\ thr[1].pc = "done"
    /\ \A t \in Threads \ {1} : thr[t].pc = "unstarted"

(***************************************************************************)
(* C25: the life cycle of the status field.                                *)
(***************************************************************************)

Statuses == {"idle", "running", "completed", "error"}

\* The changes of status the life cycle allows.
StatusSteps ==
    {<<"idle", "running">>, <<"running", "completed">>, <<"running", "error">>,
     <<"completed", "running">>, <<"error", "running">>}

\* The status changes only along the life cycle.
StatusStepsOnly ==
    scraping_progress'.status # scraping_progress.status =>
        <<scraping_progress.status, scraping_progress'.status>> \in StatusSteps

\* A terminal status stays until a start request is accepted.
TerminalUntilStart ==
    (scraping_progress.status \in {"completed", "error"}
        /\ scraping_progress'.status # scraping_progress.status) => ResetAndStart

\* A completed harvest has counted at least one job.
CompletedCountsJobs ==
    scraping_progress.status = "completed" => scraping_progress.job_count >= 1

\* C25: the status is one of idle, running, completed and error; it changes
\* only from idle, completed or error to running and from running to
\* completed or error; a terminal status stays until the next accepted
\* start; and while the status is completed, job_count is at least 1.
C25_StatusLifeCycle ==
    [][/\ scraping_progress'.status \in Statuses
       /\ StatusStepsOnly
       /\ TerminalUntilStart
       /\ CompletedCountsJobs']_vars

(***************************************************************************)
(* C26: truncation comes before deduplication.                             *)
(***************************************************************************)

\* C26: the table's rows are the first max_results accumulated records
\* (the normalized records in fetch order, C20), less those whose job_url
\* an earlier one of them has, each once; a job_url that occurs only past
\* position max_results is not in the table, also when the table has fewer
\* than max_results rows.
C26_TruncatedThenDeduplicated ==
    TableReturned =>
        LET fetched == scraper.all_jobs
            n == Min(scraper.max_results, Len(fetched))
            kept == {i \in 1..n : \A j \in 1..(i - 1) :
                                      fetched[j].job_url # fetched[i].job_url}
        IN  /\ Rows(scraper.df) = {fetched[i] : i \in kept}
            /\ Len(scraper.df) = Cardinality(kept)
            /\ \A i \in (n + 1)..Len(fetched) :
                  (\A j \in 1..n : fetched[j].job_url # fetched[i].job_url)
                      => fetched[i].job_url \notin Urls(scraper.df)

\* C26's case: max_results = 2 over one page of three listings, of which
\* the first two share a job_url and the third has another: the table
\* holds the first record alone.
C26_Witness ==
    /\ TableReturned
    /\ scraper.max_results = 2
    /\ Len(scraper.responses) = 1
    /\ Len(Normalized) = 3
    /\ Normalized[1].job_url = Normalized[2].job_url
    /\ Normalized[3].job_url # Normalized[1].job_url
    /\ scraper.df = <<Normalized[1]>>

====
